---- MODULE Spec2Model ----
(***************************************************************************)
(* Model of ivs.py: dollar-cost-averaging return calculator.               *)
(*                                                                         *)
(* Python floats are modelled as exact rationals <<n, d>> (d > 0, lowest   *)
(* terms).  Dates are records [year, month, day]; the difference of two    *)
(* timestamps in days is the difference of their proleptic Gregorian       *)
(* ordinals, as pandas/datetime compute it.                                *)
(***************************************************************************)
EXTENDS Integers, Sequences, FiniteSets

VARIABLES
    pc,                     \* where the caller is: which function ran last
    op,                     \* name of the function called last
    err,                    \* "none" or the exception that ended the call
    dfs,                    \* readFile's result: rows sorted by Date
    closingValues,          \* monthlyClose's result
    x,                      \* the amount argument of a purchase function
    totalShares,            \* local of smartMonthlyPurchase
    transactions,           \* local of smartMonthlyPurchase
    startYear,              \* local of smartMonthlyPurchase (a timestamp)
    totalRemainingThisYear, \* local of smartMonthlyPurchase
    idx,                    \* position of the for loop of smartMonthlyPurchase
    batch,                  \* (totalShares, transactions) a purchase function returned
    given,                  \* the transactions passed to averageReturnTransactions
    report,                 \* values averageReturnTransactions printed, in order
    args,                   \* arguments of a direct calculateReturn call
    ret                     \* what the direct calculateReturn call produced

vars == <<pc, op, err, dfs, closingValues, x, totalShares, transactions,
          startYear, totalRemainingThisYear, idx, batch, given, report, args, ret>>

(***************************************************************************)
(* Bounds of the model.                                                    *)
(***************************************************************************)
MaxRows == 4            \* rows in the input file
MaxMagnitude == 1000000 \* largest numerator/denominator of an exact power

None == "none"

(***************************************************************************)
(* Exact rational arithmetic standing for Python float arithmetic.         *)
(***************************************************************************)
Abs(n) == IF n < 0 THEN -n ELSE n

RECURSIVE GCD(_, _)
GCD(a, b) == IF b = 0 THEN a ELSE GCD(b, a % b)

Norm(n, d) ==
    LET g == GCD(Abs(n), Abs(d))
        s == IF d < 0 THEN -1 ELSE 1
    IN  <<(s * n) \div g, (s * d) \div g>>

R(n) == <<n, 1>>
RAdd(a, b) == Norm(a[1] * b[2] + b[1] * a[2], a[2] * b[2])
RSub(a, b) == Norm(a[1] * b[2] - b[1] * a[2], a[2] * b[2])
RMul(a, b) == Norm(a[1] * b[1], a[2] * b[2])
RDiv(a, b) == Norm(a[1] * b[2], a[2] * b[1])
RLe(a, b) == a[1] * b[2] <= b[1] * a[2]
RLt(a, b) == a[1] * b[2] < b[1] * a[2]
RZero(a) == a[1] = 0

(***************************************************************************)
(* x^(a/b) for a positive rational x, exactly, where the result is a       *)
(* rational within MaxMagnitude; NoPower otherwise.                        *)
(***************************************************************************)
NoPower == <<0, 0>>

RECURSIVE PowAcc(_, _, _)
PowAcc(c, k, acc) ==
    IF k = 0 THEN acc
    ELSE IF acc > MaxMagnitude \div c THEN MaxMagnitude + 1
    ELSE PowAcc(c, k - 1, acc * c)

IntPow(c, k) == IF c = 1 \/ k = 0 THEN 1 ELSE PowAcc(c, k, 1)

RECURSIVE RootFrom(_, _, _)
RootFrom(n, b, c) ==
    IF IntPow(c, b) = n THEN c
    ELSE IF IntPow(c, b) > n THEN 0
    ELSE RootFrom(n, b, c + 1)

\* the positive integer c with c^b = n, or 0 when there is none
IntRoot(n, b) ==
    IF n > MaxMagnitude THEN 0
    ELSE IF b = 1 THEN n
    ELSE RootFrom(n, b, 1)

RatPow(q, e) ==
    LET base == IF e[1] < 0 THEN <<q[2], q[1]>> ELSE q
        k    == Abs(e[1])
        num  == IntRoot(IntPow(base[1], k), e[2])
        den  == IntRoot(IntPow(base[2], k), e[2])
    IN  IF num = 0 \/ den = 0 THEN NoPower ELSE <<num, den>>

(***************************************************************************)
(* calculateReturn (ivs.py 19-28).  math.log10 raises ValueError on a      *)
(* non-positive argument, the float division raises ZeroDivisionError on   *)
(* years = 0.  In real arithmetic                                          *)
(*   10^((log10 v2 - log10 v1)/years) = (v2/v1)^(1/years).                 *)
(***************************************************************************)
Log10Defined(v) == v[1] > 0

Pow10LogQuotient(v1, v2, years) == RatPow(RDiv(v2, v1), RDiv(R(1), years))

\* with the elapsed time validated: no rate for years <= 0
calculateReturnRejectingNegative(v1, v2, mths) ==
    LET years == RDiv(mths, R(12))
    IN  IF ~Log10Defined(v2) \/ ~Log10Defined(v1)
        THEN [err |-> "ValueError", rate |-> None]
        ELSE IF RLe(years, R(0))
        THEN [err |-> "ZeroDivisionError", rate |-> None]
        ELSE [err |-> None,
              rate |-> RSub(Pow10LogQuotient(v1, v2, years), R(1))]

calculateReturn(v1, v2, mths) ==
    LET years == RDiv(mths, R(12))
    IN  IF ~Log10Defined(v2) \/ ~Log10Defined(v1)
        THEN [err |-> "ValueError", rate |-> None]
        ELSE IF RZero(years)
        THEN [err |-> "ZeroDivisionError", rate |-> None]
        ELSE [err |-> None,
              rate |-> RSub(Pow10LogQuotient(v1, v2, years), R(1))]

\* the call's result is an exact rational the model can hold
Exact(v1, v2, mths) ==
    IF ~Log10Defined(v2) \/ ~Log10Defined(v1) \/ RZero(mths) THEN TRUE
    ELSE Pow10LogQuotient(v1, v2, RDiv(mths, R(12))) # NoPower

(***************************************************************************)
(* Dates: the .year/.month fields and the day difference of Timestamps.    *)
(***************************************************************************)
IsLeap(y) == (y % 4 = 0 /\ y % 100 # 0) \/ y % 400 = 0

DaysInMonth(y, m) ==
    IF m = 2 THEN (IF IsLeap(y) THEN 29 ELSE 28)
    ELSE IF m \in {4, 6, 9, 11} THEN 30 ELSE 31

RECURSIVE DaysBeforeMonth(_, _)
DaysBeforeMonth(y, m) ==
    IF m = 1 THEN 0 ELSE DaysBeforeMonth(y, m - 1) + DaysInMonth(y, m - 1)

DaysBeforeYear(y) ==
    (y - 1) * 365 + (y - 1) \div 4 - (y - 1) \div 100 + (y - 1) \div 400

ToOrdinal(d) == DaysBeforeYear(d.year) + DaysBeforeMonth(d.year, d.month) + d.day

\* (a - b).days
Days(a, b) == ToOrdinal(a) - ToOrdinal(b)

Date(y, m, d) == [year |-> y, month |-> m, day |-> d]

(***************************************************************************)
(* Input files: what readFile (ivs.py 31-39) returns, rows sorted by Date. *)
(***************************************************************************)
Dates == { Date(2000, 1, 3),  Date(2000, 1, 4),  Date(2000, 2, 1),
           Date(2000, 12, 3), Date(2000, 12, 20), Date(2001, 1, 2),
           Date(2001, 2, 1),  Date(2002, 1, 2),  Date(2004, 1, 3),
           Date(2005, 1, 2),  Date(2008, 1, 3) }

Prices == {100, 1600}

Amounts == {1000, 1200}

Earliest(S) == CHOOSE d \in S : \A e \in S : ToOrdinal(d) <= ToOrdinal(e)

RECURSIVE SortedDates(_)
SortedDates(S) ==
    IF S = {} THEN <<>>
    ELSE <<Earliest(S)>> \o SortedDates(S \ {Earliest(S)})

DateLists == { SortedDates(S) : S \in {T \in SUBSET Dates : Cardinality(T) <= MaxRows} }

InputFiles ==
    UNION { { [i \in 1..Len(ds) |-> [Date |-> ds[i], Close |-> f[i]]] :
              f \in [1..Len(ds) -> Prices] } : ds \in DateLists }

(***************************************************************************)
(* monthlyClose (ivs.py 42-59)                                             *)
(***************************************************************************)
SentinelMonth == -1
SentinelYear == -1

Closing(year, month, value, timestamp) ==
    [year |-> year, month |-> month, value |-> value, timestamp |-> timestamp]

\* the month test alone
RolloverMonthOnly(row, prevMonth, prevYear) == row.Date.month > prevMonth

Rollover(row, prevMonth, prevYear) ==
    row.Date.month > prevMonth \/ row.Date.year > prevYear

RECURSIVE MonthlyCloseLoop(_, _, _, _, _)
MonthlyCloseLoop(rows, i, prevMonth, prevYear, values) ==
    IF i > Len(rows) THEN values
    ELSE IF Rollover(rows[i], prevMonth, prevYear)
    THEN MonthlyCloseLoop(rows, i + 1, rows[i].Date.month, rows[i].Date.year,
             Append(values, Closing(rows[i].Date.year, rows[i].Date.month,
                                    rows[i].Close, rows[i].Date)))
    ELSE MonthlyCloseLoop(rows, i + 1, prevMonth, prevYear, values)

\* the scan started at the second row
monthlyCloseFromSecond(rows) ==
    MonthlyCloseLoop(rows, 2, SentinelMonth, SentinelYear, <<>>)

monthlyClose(rows) == MonthlyCloseLoop(rows, 1, SentinelMonth, SentinelYear, <<>>)

(***************************************************************************)
(* purchaseSharesMonthly (ivs.py 112-127)                                  *)
(***************************************************************************)
Transaction(year, month, value, timestamp, shares, amount) ==
    [year |-> year, month |-> month, value |-> value, timestamp |-> timestamp,
     shares |-> shares, amount |-> amount]

RECURSIVE PurchaseLoop(_, _, _, _, _)
PurchaseLoop(cv, amt, i, shareSum, txs) ==
    IF i > Len(cv) THEN [totalShares |-> shareSum, transactions |-> txs]
    ELSE LET v == cv[i]
             shares == RDiv(R(amt), R(v.value))
         IN  PurchaseLoop(cv, amt, i + 1, RAdd(shareSum, shares),
                 Append(txs, Transaction(v.year, v.month, v.value, v.timestamp,
                                         shares, amt)))

\* totalShares = shares in place of totalShares += shares
purchaseSharesMonthlyAssigning(cv, amt) ==
    LET out == PurchaseLoop(cv, amt, 1, R(0), <<>>)
    IN  [totalShares |-> IF cv = <<>> THEN R(0)
                         ELSE out.transactions[Len(cv)].shares,
         transactions |-> out.transactions]

purchaseSharesMonthly(cv, amt) == PurchaseLoop(cv, amt, 1, R(0), <<>>)

(***************************************************************************)
(* smartMonthlyPurchase (ivs.py 130-158), one iteration of its loop at a   *)
(* time.  round(n/d, 0) of Python 2 rounds half away from zero.            *)
(***************************************************************************)
TargetMonths == 12

RoundHalfAway(n, d) ==
    IF n >= 0 THEN (2 * n + d) \div (2 * d)
    ELSE -((2 * (-n) + d) \div (2 * d))

\* int(days / 30.5) in place of round
ElapsedMonthsTruncated(days) == (2 * days) \div 61

\* round(days / 30.5, 0)
ElapsedMonths(days) == RoundHalfAway(2 * days, 61)

YearBudget(amt) == amt * 12

(***************************************************************************)
(* calculateReturnTransaction (ivs.py 62-77)                               *)
(***************************************************************************)
DaysPerYear == <<1461, 4>>     \* 365.25

\* (duration.days/365.25)*12.0
TotalMonths(t, cv) ==
    RMul(RDiv(R(Days(cv[Len(cv)].timestamp, t.timestamp)), DaysPerYear), R(12))

EndValue(t, cv) == RMul(R(cv[Len(cv)].value), t.shares)

calculateReturnTransaction(t, cv) ==
    IF cv = <<>> THEN [err |-> "IndexError", rate |-> None]
    ELSE calculateReturn(R(t.amount), EndValue(t, cv), TotalMonths(t, cv))

(***************************************************************************)
(* averageReturnTransactions (ivs.py 80-105).  The result is the exception *)
(* that ended the call, if any, and the values printed before it.          *)
(***************************************************************************)
\* transactions[0:-1]
AllButLast(txs) == IF txs = <<>> THEN <<>> ELSE SubSeq(txs, 1, Len(txs) - 1)

RECURSIVE TotalR(_, _)
TotalR(txs, cv) ==
    IF txs = <<>> THEN R(0)
    ELSE RAdd(TotalR(AllButLast(txs), cv),
              calculateReturnTransaction(txs[Len(txs)], cv).rate)

RECURSIVE TotalAmount(_)
TotalAmount(txs) ==
    IF txs = <<>> THEN R(0)
    ELSE RAdd(TotalAmount(AllButLast(txs)), R(txs[Len(txs)].amount))

RECURSIVE TotalSharesOf(_)
TotalSharesOf(txs) ==
    IF txs = <<>> THEN R(0)
    ELSE RAdd(TotalSharesOf(AllButLast(txs)), txs[Len(txs)].shares)

RECURSIVE WeightedR(_, _)
WeightedR(txs, cv) ==
    IF txs = <<>> THEN R(0)
    ELSE RAdd(WeightedR(AllButLast(txs), cv),
              RMul(txs[Len(txs)].shares,
                   calculateReturnTransaction(txs[Len(txs)], cv).rate))

\* the exception raised inside the loop, if any: that of the first failing call
LoopError(txs, cv) ==
    LET bad == {i \in 1..Len(txs) : calculateReturnTransaction(txs[i], cv).err # None}
    IN  IF bad = {} THEN None
        ELSE calculateReturnTransaction(txs[CHOOSE i \in bad : \A j \in bad : i <= j], cv).err

Line(label, value) == [label |-> label, value |-> value]

AverageAnnualReturn(txs, cv) ==
    RDiv(RMul(R(100), TotalR(AllButLast(txs), cv)), R(Len(txs)))

\* divided by the shares of every transaction, the last included
WeightedAverageOverAllShares(txs, cv) ==
    RDiv(RMul(R(100), WeightedR(AllButLast(txs), cv)), TotalSharesOf(txs))

WeightedAverageReturn(txs, cv) ==
    RDiv(RMul(R(100), WeightedR(AllButLast(txs), cv)), TotalSharesOf(AllButLast(txs)))

\* with the batch length validated before anything is reported
averageReturnTransactionsValidating(txs, cv) ==
    IF Len(txs) < 2 THEN [err |-> "ZeroDivisionError", report |-> <<>>]
    ELSE [err |-> None,
          report |->
              <<Line("Total amount invested", TotalAmount(AllButLast(txs))),
                Line("Total shares", TotalSharesOf(AllButLast(txs))),
                Line("Value at end",
                     RMul(R(cv[Len(cv)].value), TotalSharesOf(AllButLast(txs)))),
                Line("Average annual return", AverageAnnualReturn(txs, cv)),
                Line("Weighted average return", WeightedAverageReturn(txs, cv))>>]

averageReturnTransactions(txs, cv) ==
    LET loop == AllButLast(txs)
        l1 == <<Line("Total amount invested", TotalAmount(loop)),
                Line("Total shares", TotalSharesOf(loop))>>
        l3 == Append(l1, Line("Value at end",
                              RMul(R(cv[Len(cv)].value), TotalSharesOf(loop))))
        l4 == Append(l3, Line("Average annual return", AverageAnnualReturn(txs, cv)))
        l5 == Append(l4, Line("Weighted average return", WeightedAverageReturn(txs, cv)))
    IN  IF LoopError(loop, cv) # None
        THEN [err |-> LoopError(loop, cv), report |-> <<>>]
        ELSE IF cv = <<>> THEN [err |-> "IndexError", report |-> l1]
        ELSE IF Len(txs) = 0 THEN [err |-> "ZeroDivisionError", report |-> l3]
        ELSE IF RZero(TotalSharesOf(loop))
        THEN [err |-> "ZeroDivisionError", report |-> l4]
        ELSE [err |-> None, report |-> l5]

\* every return the call computes is an exact rational the model can hold
ExactReturns(txs, cv) ==
    IF cv = <<>> THEN TRUE
    ELSE \A i \in 1..Len(AllButLast(txs)) :
            Exact(R(txs[i].amount), EndValue(txs[i], cv), TotalMonths(txs[i], cv))

(***************************************************************************)
(* The state machine: a caller of the module's functions.                  *)
(***************************************************************************)
NoBatch == [totalShares |-> None, transactions |-> None]
NoArgs == [v1 |-> None, v2 |-> None, mths |-> None]
NoRet == [err |-> None, rate |-> None]

Values == {-100, 0, 100, 200, 400}
Months == {-12, 0, 6, 12, 24}

Init ==
    /\ pc = "start"
    /\ op = None
    /\ err = None
    /\ dfs = <<>>
    /\ closingValues = <<>>
    /\ x = 0
    /\ totalShares = R(0)
    /\ transactions = <<>>
    /\ startYear = None
    /\ totalRemainingThisYear = 0
    /\ idx = 0
    /\ batch = NoBatch
    /\ given = <<>>
    /\ report = <<>>
    /\ args = NoArgs
    /\ ret = NoRet

ReadFile ==
    /\ pc = "start"
    /\ \E f \in InputFiles : dfs' = f
    /\ pc' = "read"
    /\ op' = "readFile"
    /\ UNCHANGED <<err, closingValues, x, totalShares, transactions, startYear,
                   totalRemainingThisYear, idx, batch, given, report, args, ret>>

MonthlyClose ==
    /\ pc = "read"
    /\ closingValues' = monthlyClose(dfs)
    /\ pc' = "closed"
    /\ op' = "monthlyClose"
    /\ UNCHANGED <<err, dfs, x, totalShares, transactions, startYear,
                   totalRemainingThisYear, idx, batch, given, report, args, ret>>

PurchaseSharesMonthly ==
    /\ pc = "closed"
    /\ \E amt \in Amounts :
        /\ x' = amt
        /\ batch' = purchaseSharesMonthly(closingValues, amt)
    /\ pc' = "purchased"
    /\ op' = "purchaseSharesMonthly"
    /\ UNCHANGED <<err, dfs, closingValues, totalShares, transactions, startYear,
                   totalRemainingThisYear, idx, given, report, args, ret>>

\* ivs.py 140-144; closingValues[0] raises IndexError on an empty list
SmartBegin ==
    /\ pc = "closed"
    /\ op' = "smartMonthlyPurchase"
    /\ \E amt \in Amounts : x' = amt
    /\ IF closingValues = <<>>
       THEN /\ pc' = "failed"
            /\ err' = "IndexError"
            /\ UNCHANGED <<totalShares, transactions, startYear,
                           totalRemainingThisYear, idx>>
       ELSE /\ pc' = "smart"
            /\ totalShares' = R(0)
            /\ transactions' = <<>>
            /\ startYear' = closingValues[1].timestamp
            /\ totalRemainingThisYear' = YearBudget(x')
            /\ idx' = 1
            /\ UNCHANGED err
    /\ UNCHANGED <<dfs, closingValues, batch, given, report, args, ret>>

\* the loop with the window restarted at an Observation that is past 12 months
SmartStepResetOnSkip ==
    /\ pc = "smart"
    /\ idx <= Len(closingValues)
    /\ LET v == closingValues[idx]
           elapsedMonths == ElapsedMonths(Days(v.timestamp, startYear))
           shares == RDiv(R(totalRemainingThisYear), R(v.value))
       IN  IF elapsedMonths = TargetMonths
           THEN /\ totalShares' = RAdd(totalShares, shares)
                /\ transactions' = Append(transactions,
                       Transaction(v.year, v.month, v.value, v.timestamp,
                                   shares, totalRemainingThisYear))
                /\ startYear' = v.timestamp
           ELSE /\ startYear' = IF elapsedMonths > TargetMonths
                                THEN v.timestamp ELSE startYear
                /\ UNCHANGED <<totalShares, transactions>>
    /\ idx' = idx + 1
    /\ UNCHANGED <<pc, op, err, dfs, closingValues, x, totalRemainingThisYear,
                   batch, given, report, args, ret>>

\* ivs.py 145-155: one iteration of the loop
SmartStep ==
    /\ pc = "smart"
    /\ idx <= Len(closingValues)
    /\ LET v == closingValues[idx]
           elapsedMonths == ElapsedMonths(Days(v.timestamp, startYear))
           shares == RDiv(R(totalRemainingThisYear), R(v.value))
       IN  IF elapsedMonths = TargetMonths
           THEN /\ totalShares' = RAdd(totalShares, shares)
                /\ transactions' = Append(transactions,
                       Transaction(v.year, v.month, v.value, v.timestamp,
                                   shares, totalRemainingThisYear))
                /\ startYear' = v.timestamp
           ELSE UNCHANGED <<totalShares, transactions, startYear>>
    /\ idx' = idx + 1
    /\ UNCHANGED <<pc, op, err, dfs, closingValues, x, totalRemainingThisYear,
                   batch, given, report, args, ret>>

\* the return without the print of transactions[0]
SmartReturnNoPrint ==
    /\ pc = "smart"
    /\ idx > Len(closingValues)
    /\ pc' = "purchased"
    /\ batch' = [totalShares |-> totalShares, transactions |-> transactions]
    /\ UNCHANGED <<op, err, dfs, closingValues, x, totalShares, transactions,
                   startYear, totalRemainingThisYear, idx, given, report, args, ret>>

\* ivs.py 157-158; transactions[0] raises IndexError on an empty list
SmartReturn ==
    /\ pc = "smart"
    /\ idx > Len(closingValues)
    /\ IF transactions = <<>>
       THEN /\ pc' = "failed"
            /\ err' = "IndexError"
            /\ UNCHANGED batch
       ELSE /\ pc' = "purchased"
            /\ batch' = [totalShares |-> totalShares, transactions |-> transactions]
            /\ UNCHANGED err
    /\ UNCHANGED <<op, dfs, closingValues, x, totalShares, transactions, startYear,
                   totalRemainingThisYear, idx, given, report, args, ret>>

\* the caller passes the batch, or its first n transactions
AverageReturnTransactions ==
    /\ pc = "purchased"
    /\ \E n \in 0..Len(batch.transactions) :
        LET txs == SubSeq(batch.transactions, 1, n)
            out == averageReturnTransactions(txs, closingValues)
        IN  /\ ExactReturns(txs, closingValues)
            /\ given' = txs
            /\ report' = out.report
            /\ err' = out.err
            /\ pc' = IF out.err = None THEN "reported" ELSE "failed"
    /\ op' = "averageReturnTransactions"
    /\ UNCHANGED <<dfs, closingValues, x, totalShares, transactions, startYear,
                   totalRemainingThisYear, idx, batch, args, ret>>

CalculateReturn ==
    /\ pc = "start"
    /\ \E a \in Values, b \in Values, m \in Months :
        /\ Exact(R(a), R(b), R(m))
        /\ args' = [v1 |-> a, v2 |-> b, mths |-> m]
        /\ ret' = calculateReturn(R(a), R(b), R(m))
        /\ err' = calculateReturn(R(a), R(b), R(m)).err
        /\ pc' = IF calculateReturn(R(a), R(b), R(m)).err = None
                 THEN "returned" ELSE "failed"
    /\ op' = "calculateReturn"
    /\ UNCHANGED <<dfs, closingValues, x, totalShares, transactions, startYear,
                   totalRemainingThisYear, idx, batch, given, report>>

Next ==
    \/ ReadFile
    \/ MonthlyClose
    \/ PurchaseSharesMonthly
    \/ SmartBegin
    \/ SmartStep
    \/ SmartReturn
    \/ AverageReturnTransactions
    \/ CalculateReturn

Spec == Init /\ [][Next]_vars

(***************************************************************************)
(* Properties                                                              *)
(***************************************************************************)
HasLine(label) == \E i \in 1..Len(report) : report[i].label = label

ReportValue(label) ==
    report[CHOOSE i \in 1..Len(report) : report[i].label = label].value

AggregatorEnded ==
    op = "averageReturnTransactions" /\ pc \in {"reported", "failed"}

\* the returns of the transactions of `given` except the last, in order
IncludedReturns ==
    [i \in 1..(Len(given) - 1) |->
        calculateReturnTransaction(given[i], closingValues).rate]

IncludedShares == [i \in 1..(Len(given) - 1) |-> given[i].shares]

RECURSIVE SumTo(_, _)
SumTo(f, n) == IF n = 0 THEN R(0) ELSE RAdd(SumTo(f, n - 1), f[n])

Products(f, g) == [i \in DOMAIN f |-> RMul(f[i], g[i])]

Percent(q) == RMul(R(100), q)

\* C1: for a batch of n >= 2 transactions the reported average return is the
\* sum of the first n-1 per-transaction returns divided by n-1.
C1_AverageIsMeanOfIncluded ==
    (pc = "reported" /\ Len(given) >= 2) =>
        ReportValue("Average annual return") =
            Percent(RDiv(SumTo(IncludedReturns, Len(given) - 1), R(Len(given) - 1)))

\* what the code reports instead: the same sum divided by n
C1_AverageDividesByBatchLength ==
    (pc = "reported" /\ Len(given) >= 2) =>
        ReportValue("Average annual return") =
            Percent(RDiv(SumTo(IncludedReturns, Len(given) - 1), R(Len(given))))

C1_Reached ==
    /\ pc = "reported" /\ Len(given) >= 2
    /\ ~RZero(SumTo(IncludedReturns, Len(given) - 1))

(***************************************************************************)
(* C2                                                                      *)
(***************************************************************************)
Reduced == pc \notin {"start", "read"} /\ op # "calculateReturn"

SameMonth(r, q) == r.Date.year = q.Date.year /\ r.Date.month = q.Date.month

\* the rows that are the first of their calendar month
FirstOfMonth == {i \in 1..Len(dfs) : \A j \in 1..(i - 1) : ~SameMonth(dfs[i], dfs[j])}

Rank(i) == Cardinality({j \in FirstOfMonth : j <= i})

MonthBefore(a, b) == a.year < b.year \/ (a.year = b.year /\ a.month < b.month)

\* C2: on sorted input the Reducer returns exactly one Observation per calendar
\* (year, month) of the input, carrying the price and date of the first row of
\* that month, in strictly increasing (year, month) order.
C2_OnePerMonthFirstRow ==
    Reduced =>
        /\ Len(closingValues) = Cardinality(FirstOfMonth)
        /\ \A i \in FirstOfMonth :
               closingValues[Rank(i)] =
                   [year |-> dfs[i].Date.year, month |-> dfs[i].Date.month,
                    value |-> dfs[i].Close, timestamp |-> dfs[i].Date]
        /\ \A k \in 1..(Len(closingValues) - 1) :
               MonthBefore(closingValues[k], closingValues[k + 1])

\* rows sharing a month, a later year with an earlier month, and the same
\* month one year on
C2_Reached ==
    /\ pc = "closed"
    /\ Len(closingValues) >= 3
    /\ Len(closingValues) < Len(dfs)
    /\ \E k \in 1..(Len(closingValues) - 1) :
           closingValues[k + 1].month <= closingValues[k].month

(***************************************************************************)
(* C3                                                                      *)
(***************************************************************************)
\* C3: the Fixed Monthly simulator returns one Transaction per Observation, in
\* series order, each with amount = amountPerMonth and shares = amountPerMonth /
\* price, and totalShares is the sum of the shares of the Transactions.
C3_OneTransactionPerObservation ==
    (pc = "purchased" /\ op = "purchaseSharesMonthly" /\ Len(closingValues) >= 1) =>
        /\ Len(batch.transactions) = Len(closingValues)
        /\ \A i \in 1..Len(closingValues) :
               LET t == batch.transactions[i]
                   v == closingValues[i]
               IN  /\ t.year = v.year /\ t.month = v.month
                   /\ t.value = v.value /\ t.timestamp = v.timestamp
                   /\ t.amount = x
                   /\ t.shares = Norm(x, v.value)
        /\ batch.totalShares =
               SumTo([i \in 1..Len(closingValues) |-> batch.transactions[i].shares],
                     Len(closingValues))

C3_Reached ==
    /\ pc = "purchased" /\ op = "purchaseSharesMonthly"
    /\ Len(closingValues) >= 3
    /\ \E i, j \in 1..Len(closingValues) : closingValues[i].value # closingValues[j].value

(***************************************************************************)
(* C4, C5, C10: smartMonthlyPurchase                                       *)
(***************************************************************************)
\* round(days / 30.5) = 12, i.e. 11.5 <= days / 30.5 < 12.5
RoundsToTwelve(days) == 23 * 61 <= 4 * days /\ 4 * days < 25 * 61

\* round(days / 30.5) > 12, i.e. days / 30.5 >= 12.5
RoundsPastTwelve(days) == 4 * days >= 25 * 61

InSmartLoop == pc = "smart"

LastTimestamp(txs) == txs[Len(txs)].timestamp

\* C4: windowStart starts at the first Observation's timestamp; an Observation
\* yields a Transaction iff round(days since windowStart / 30.5) = 12; the
\* Transaction is for the full annual budget at the Observation's price; and
\* windowStart is reset to that Observation's timestamp before the next one is
\* examined, so consecutive Transactions are a rounded 12 months apart.
C4_EmitsExactlyAtTwelve ==
    [][ /\ (pc = "closed" /\ pc' = "smart") =>
               /\ startYear' = closingValues[1].timestamp
               /\ transactions' = <<>>
        /\ (InSmartLoop /\ idx' = idx + 1) =>
               LET v == closingValues[idx]
                   hit == RoundsToTwelve(Days(v.timestamp, startYear))
               IN  /\ hit =>
                          /\ transactions' = Append(transactions,
                                 [year |-> v.year, month |-> v.month,
                                  value |-> v.value, timestamp |-> v.timestamp,
                                  shares |-> Norm(12 * x, v.value),
                                  amount |-> 12 * x])
                          /\ totalShares' = RAdd(totalShares, Norm(12 * x, v.value))
                          /\ startYear' = v.timestamp
                   /\ ~hit => UNCHANGED <<transactions, totalShares, startYear>>
        /\ InSmartLoop' =>
               /\ startYear' = IF transactions' = <<>>
                               THEN closingValues[1].timestamp
                               ELSE LastTimestamp(transactions')
               /\ \A k \in 1..Len(transactions') :
                      RoundsToTwelve(Days(transactions'[k].timestamp,
                                          IF k = 1 THEN closingValues[1].timestamp
                                          ELSE transactions'[k - 1].timestamp))
      ]_vars

\* two Transactions, and an Observation between the windows that yields none
C4_Reached ==
    /\ InSmartLoop
    /\ Len(transactions) >= 2
    /\ idx > Len(transactions) + 2

\* the first and the last Observation are at most 11 calendar months apart
SpansAtMostElevenMonths(cv) ==
    LET a == cv[1].timestamp
        b == cv[Len(cv)].timestamp
        months == (b.year * 12 + b.month) - (a.year * 12 + a.month)
    IN  months < 11 \/ (months = 11 /\ b.day <= a.day)

SpansElevenMonths(cv) ==
    LET a == cv[1].timestamp
        b == cv[Len(cv)].timestamp
    IN  (b.year * 12 + b.month) - (a.year * 12 + a.month) = 11 /\ b.day = a.day

SmartEnded == op = "smartMonthlyPurchase" /\ pc \in {"purchased", "failed"}

\* C5: the Annual-Budget simulator fails, returning no (totalShares, batch),
\* whenever a non-empty series yields zero transactions; on a series spanning
\* 11 months (or less) no Observation reaches a rounded 12 months, no
\* transaction is emitted and the call fails.
C5_FailsWithoutTransactions ==
    /\ (SmartEnded /\ closingValues # <<>> /\ transactions = <<>>) =>
           pc = "failed" /\ err # None /\ batch = NoBatch
    /\ (op = "smartMonthlyPurchase" /\ closingValues # <<>>
            /\ SpansAtMostElevenMonths(closingValues)) =>
           /\ transactions = <<>>
           /\ SmartEnded => (pc = "failed" /\ batch = NoBatch)

C5_Reached ==
    /\ SmartEnded /\ pc = "failed"
    /\ Len(closingValues) >= 2
    /\ SpansElevenMonths(closingValues)
    /\ transactions = <<>>

\* some Observation already examined lies a rounded 13 months or more after
\* the current windowStart
SkippedPastTwelve ==
    /\ InSmartLoop
    /\ \E k \in 1..(idx - 1) :
           RoundsPastTwelve(Days(closingValues[k].timestamp, startYear))

\* C10: windowStart changes only when a Transaction is emitted, so once an
\* Observation is a rounded 13 months or more past windowStart, no later
\* Observation of the series emits a Transaction.
C10_SkipSuppressesLaterYears ==
    [][ /\ (InSmartLoop /\ startYear' # startYear) =>
               Len(transactions') = Len(transactions) + 1
        /\ SkippedPastTwelve =>
               /\ transactions' = transactions
               /\ InSmartLoop' => SkippedPastTwelve'
      ]_vars

\* a skip after an earlier Transaction, with a later Observation examined
\* a whole year after the skipped one
C10_Reached ==
    /\ SkippedPastTwelve
    /\ transactions # <<>>
    /\ \E k \in 1..(idx - 2) :
           /\ RoundsPastTwelve(Days(closingValues[k].timestamp, startYear))
           /\ Days(closingValues[idx - 1].timestamp, closingValues[k].timestamp) >= 334

(***************************************************************************)
(* C6: calculateReturn                                                     *)
(***************************************************************************)
CalculateReturnEnded == op = "calculateReturn" /\ pc \in {"returned", "failed"}

RECURSIVE Power(_, _)
Power(c, k) == IF k = 0 THEN 1 ELSE c * Power(c, k - 1)

RPower(q, k) == <<Power(q[1], k), Power(q[2], k)>>

\* (1 + rate)^years = v2 / v1, written with whole exponents:
\* (1 + rate)^|mths| = (v2 / v1)^12 for mths > 0, (v1 / v2)^12 for mths < 0
RateCompounds ==
    LET growth == RAdd(R(1), ret.rate)
        ratio  == IF args.mths > 0 THEN Norm(args.v2, args.v1)
                  ELSE Norm(args.v1, args.v2)
    IN  RPower(growth, Abs(args.mths)) = RPower(ratio, 12)

C7_NeverReturnsEmpty == pc = "closed" => closingValues # <<>>

\* C7 amended: the Reducer never fails; it returns an empty MonthlySeries on
\* an empty input and at least one Observation on every non-empty input.
C7_EmptyExactlyOnEmptyInput ==
    Reduced =>
        /\ closingValues = <<>> <=> dfs = <<>>
        /\ pc = "closed" => err = None

C7_Reached == pc = "closed" /\ dfs = <<>> /\ closingValues = <<>> /\ err = None

(***************************************************************************)
(* C8, C9: averageReturnTransactions                                       *)
(***************************************************************************)
Labels == <<"Total amount invested", "Total shares", "Value at end",
            "Average annual return", "Weighted average return">>

ReportedLabels == [i \in 1..Len(report) |-> report[i].label]

\* C8 as claimed: on a batch of fewer than 2 transactions the Aggregator
\* fails and nothing is reported before the failure.
C8_FailsWithoutPartialResults ==
    (AggregatorEnded /\ Len(given) < 2) => (pc = "failed" /\ report = <<>>)

\* C8 amended: on a batch of fewer than 2 transactions the Aggregator fails,
\* but only after reporting total amount and total shares (both 0), then the
\* ending value (0) when the series is non-empty, then averageReturn (0) when
\* the batch has exactly 1 transaction and the series is non-empty; only
\* weightedAverageReturn is never reported.
C8_FailsAfterPartialResults ==
    (AggregatorEnded /\ Len(given) < 2) =>
        /\ pc = "failed" /\ err # None
        /\ ReportedLabels =
               SubSeq(Labels, 1, IF closingValues = <<>> THEN 2
                                 ELSE IF Len(given) = 0 THEN 3 ELSE 4)
        /\ \A i \in 1..Len(report) : report[i].value = R(0)

C8_Reached ==
    /\ AggregatorEnded /\ Len(given) = 1 /\ pc = "failed"
    /\ HasLine("Average annual return")

RLeast(f) == CHOOSE i \in DOMAIN f : \A j \in DOMAIN f : RLe(f[i], f[j])
RGreatest(f) == CHOOSE i \in DOMAIN f : \A j \in DOMAIN f : RLe(f[j], f[i])

\* C9: for a batch of n >= 2 transactions with positive shares the reported
\* weighted average return is sum(shares x return) / sum(shares) over the first
\* n-1 transactions, and lies between the least and the greatest of those
\* n-1 returns.
C9_WeightedMeanOfIncluded ==
    (AggregatorEnded /\ Len(given) >= 2
        /\ \A i \in 1..Len(given) : RLt(R(0), given[i].shares)) =>
        /\ pc = "reported"
        /\ ReportValue("Weighted average return") =
               Percent(RDiv(SumTo(Products(IncludedShares, IncludedReturns),
                                  Len(given) - 1),
                            SumTo(IncludedShares, Len(given) - 1)))
        /\ RLe(Percent(IncludedReturns[RLeast(IncludedReturns)]),
               ReportValue("Weighted average return"))
        /\ RLe(ReportValue("Weighted average return"),
               Percent(IncludedReturns[RGreatest(IncludedReturns)]))

\* unequal returns and unequal shares: the weighted mean is strictly inside
C9_Reached ==
    /\ pc = "reported" /\ Len(given) >= 3
    /\ RLt(Percent(IncludedReturns[RLeast(IncludedReturns)]),
           ReportValue("Weighted average return"))
    /\ RLt(ReportValue("Weighted average return"),
           Percent(IncludedReturns[RGreatest(IncludedReturns)]))
    /\ ReportValue("Weighted average return") #
           Percent(RDiv(SumTo(IncludedReturns, Len(given) - 1), R(Len(given) - 1)))

====
